---- MODULE Spec2Model ----
(***************************************************************************)
(* gencert (src/main.go): reads names from a CSV file and, for each name,  *)
(* writes a copy of a background PNG with the name drawn on it.            *)
(*                                                                         *)
(* Strings the program inspects character by character (the names) are     *)
(* sequences of one-character strings; paths, colour names and messages    *)
(* are atoms.  The float64 options -width and -height are the exact        *)
(* fractions num/den with den a power of two, for which the float64        *)
(* product with a small integer is exact.                                  *)
(***************************************************************************)
EXTENDS Integers, Sequences, FiniteSets

VARIABLES
  pc,          \* position of main(): the statement about to run, "done" or "fatal"
  flags,       \* the parsed command line options (main.go:23-33)
  exists,      \* the paths os.Stat finds
  csv,         \* the records csv.Reader finds in the names file
  imageFile,   \* the raster stored in the image file
  fontFile,    \* the font stored in the font file
  outDir,      \* the output directory: base file name -> content
  fault,       \* the library call the environment makes fail, if any
  srcColor,    \* main.go:64
  names,       \* main.go:71
  originalImg, \* main.go:83
  imgWidth,    \* main.go:89
  imgHeight,   \* main.go:90
  fontType,    \* main.go:100
  idx,         \* position of the range loop of main.go:115 (1-based)
  imgCopy,     \* main.go:117
  textWidth,   \* main.go:136
  startX,      \* main.go:138
  startY,      \* main.go:137
  openFiles,   \* the file handles the process holds open
  deferred,    \* the calls main() has deferred, oldest first
  stdout,      \* what fmt.Print* wrote
  stderr,      \* what log.Fatalf wrote
  sIn,         \* argument of sanitizeFilename when it is run on its own
  sOut         \* its successive results: sanitizeFilename(sIn), then of that result

vars == <<pc, flags, exists, csv, imageFile, fontFile, outDir, fault, srcColor,
          names, originalImg, imgWidth, imgHeight, fontType, idx, imgCopy,
          textWidth, startX, startY, openFiles, deferred, stdout, stderr,
          sIn, sOut>>

----------------------------------------------------------------------------
(* Bounds of the explored inputs. *)

\* longest string given to sanitizeFilename on its own
MaxLen == 3
\* most records in the names file
MaxRecords == 2
\* largest image width and height when the anchor is computed on its own
MaxDim == 4
\* largest numerator of a -width / -height fraction
MaxNum == 5

----------------------------------------------------------------------------
(* sanitizeFilename: main.go:165-170 *)

Letters == {"a","b","c","d","e","f","g","h","i","j","k","l","m",
            "n","o","p","q","r","s","t","u","v","w","x","y","z",
            "A","B","C","D","E","F","G","H","I","J","K","L","M",
            "N","O","P","Q","R","S","T","U","V","W","X","Y","Z"}

Digits == {"0","1","2","3","4","5","6","7","8","9"}

\* strings.ReplaceAll(filename, " ", "_")
ReplaceAllSpaces(s) == [k \in 1..Len(s) |-> IF s[k] = " " THEN "_" ELSE s[k]]

\* a class without the underscore: [^a-zA-Z0-9]
MatchesNoUnderscore(ch) == ch \notin (Letters \cup Digits)

\* the character class [^a-zA-Z0-9_]
Matches(ch) == ch \notin (Letters \cup Digits \cup {"_"})

\* end (exclusive) of the longest run of matching characters that starts at k
RECURSIVE RunEnd(_, _)
RunEnd(s, k) == IF k <= Len(s) /\ Matches(s[k]) THEN RunEnd(s, k + 1) ELSE k

\* reg.ReplaceAllString(s, repl) for reg = [^a-zA-Z0-9_]+, scanning from k:
\* every leftmost-longest match is replaced by repl, the rest is copied
RECURSIVE ReplaceFrom(_, _, _)
ReplaceFrom(s, k, repl) ==
  IF k > Len(s) THEN <<>>
  ELSE IF Matches(s[k]) THEN repl \o ReplaceFrom(s, RunEnd(s, k), repl)
  ELSE <<s[k]>> \o ReplaceFrom(s, k + 1, repl)

\* only the first match is replaced
RECURSIVE ReplaceFirstFrom(_, _, _)
ReplaceFirstFrom(s, k, repl) ==
  IF k > Len(s) THEN <<>>
  ELSE IF Matches(s[k]) THEN repl \o SubSeq(s, RunEnd(s, k), Len(s))
  ELSE <<s[k]>> \o ReplaceFirstFrom(s, k + 1, repl)

ReplaceFirstString(s, repl) == ReplaceFirstFrom(s, 1, repl)

ReplaceAllString(s, repl) == ReplaceFrom(s, 1, repl)

sanitizeFilename(filename) == ReplaceAllString(ReplaceAllSpaces(filename), <<>>)

\* the name is used as it is
RawFilename(outputPath, name) ==
  [dir |-> outputPath, base |-> name \o <<".", "p", "n", "g">>]

\* filepath.Join(*outputPath, sanitizeFilename(name)+".png"), main.go:151
OutputFilename(outputPath, name) ==
  [dir |-> outputPath, base |-> sanitizeFilename(name) \o <<".", "p", "n", "g">>]

----------------------------------------------------------------------------
(* The anchor: main.go:136-143, and getTextWidth: main.go:194-201 *)

\* the float64 options as exact fractions
Fractions == [num : -1..MaxNum, den : {1, 2, 4}]

Half == [num |-> 1, den |-> 2]

\* int(x) of a float64 x = a/b, b > 0: Go truncates toward zero
TruncDiv(a, b) == IF a >= 0 THEN a \div b ELSE -((-a) \div b)

\* int(float64(n) * p)
FloatToInt(n, p) == TruncDiv(n * p.num, p.den)

\* the offset is taken from the top
StartYFromTop(h, heightPercent) == FloatToInt(h, heightPercent)

\* startY, main.go:137
StartY(h, heightPercent) == h - FloatToInt(h, heightPercent)

\* the text width is subtracted whether or not -center is given
StartXAlwaysCentered(w, widthPercent, center, tw) ==
  FloatToInt(w, widthPercent) - tw \div 2

\* startX, main.go:138-142 (tw is never negative, so tw/2 is tw \div 2)
StartX(w, widthPercent, center, tw) ==
  IF center THEN FloatToInt(w, widthPercent) - tw \div 2
  ELSE FloatToInt(w, widthPercent)

\* int(font.HMetric(fixed.Int26_6(size), font.Index(ch)).AdvanceWidth):
\* a font is its table of advance widths, "other" for the glyphs not listed
Advance(font, ch) == IF ch \in DOMAIN font.adv THEN font.adv[ch] ELSE font.other

RECURSIVE getTextWidth(_, _)
getTextWidth(text, font) ==
  IF text = <<>> THEN 0
  ELSE Advance(font, Head(text)) + getTextWidth(Tail(text), font)

----------------------------------------------------------------------------
(* The inputs of a run *)

AB == <<"A", "B">>
AxB == <<"A", "!", "B">>
Cd == <<"C", " ", "d">>
E == <<"e">>
Empty == <<>>

\* the records the names file may hold; a record is the fields of one line
RecordPool == {<<AB>>, <<AxB>>, <<Cd, Empty>>, <<AB, E>>}

RecordLists == UNION {[1..n -> RecordPool] : n \in 0..MaxRecords}

NoImage == [bounds |-> <<0, 0>>, pix |-> "none", ink |-> <<>>]

\* a raster is its bounds, its pixels before any text was drawn on it, and
\* the DrawString calls that drew glyphs on it
ImagePool == {[bounds |-> <<4, 2>>, pix |-> "certificate", ink |-> <<>>],
              [bounds |-> <<3, 3>>, pix |-> "diploma", ink |-> <<>>]}

NoFont == [adv |-> [c \in {} |-> 0], other |-> 0]

FontPool == {[adv |-> [c \in {"A", "B"} |-> IF c = "A" THEN 2 ELSE 3], other |-> 1],
             [adv |-> [c \in {"A", "B"} |-> 1], other |-> 0]}

\* colornames.Map, the entries the runs use
ColorMap == [c \in {"black", "red"} |->
               IF c = "black" THEN [R |-> 0, G |-> 0, B |-> 0, A |-> 255]
               ELSE [R |-> 255, G |-> 0, B |-> 0, A |-> 255]]

ZeroColor == [R |-> 0, G |-> 0, B |-> 0, A |-> 0]

\* strings.ToLower on the colour names the runs use
ToLower(s) == IF s = "Red" THEN "red" ELSE s

\* content of a file of the output directory: left by an earlier run
\* ("stale"), created and not (completely) encoded ("truncated"), or a PNG
Stale == [kind |-> "stale", img |-> NoImage]
Truncated == [kind |-> "truncated", img |-> NoImage]
Png(img) == [kind |-> "png", img |-> img]

NoFiles == [f \in {} |-> Stale]

\* the output directory before the run: empty, or holding AB.png
OutDirs == {NoFiles, [f \in {AB \o <<".", "p", "n", "g">>} |-> Stale]}

NoFault == [stage |-> "none", at |-> 0]

SetupStages == {"csv", "open", "decode", "readFont", "parseFont"}

NameStages == {"draw", "create", "encode"}

RECURSIVE CountFields(_)
CountFields(records) ==
  IF records = <<>> THEN 0 ELSE Len(Head(records)) + CountFields(Tail(records))

\* the environment makes at most one library call fail: a call of the set-up,
\* or the drawing, creating or encoding of the at-th name
FaultPlans(records) ==
  {NoFault} \cup [stage : SetupStages, at : {0}]
            \cup [stage : NameStages, at : 1..CountFields(records)]

DefaultFlags ==
  [csvFilePath |-> "names.csv", imagePath |-> "image.png", fontPath |-> "font.ttf",
   outputPath |-> "out", srcColorName |-> "black",
   widthPercent |-> Half, heightPercent |-> Half, centerText |-> FALSE]

AllPaths == {"names.csv", "image.png", "font.ttf", "out"}

\* the values every run starts with
Locals ==
  /\ srcColor = ZeroColor
  /\ names = <<>>
  /\ originalImg = NoImage
  /\ imgWidth = 0
  /\ imgHeight = 0
  /\ fontType = NoFont
  /\ idx = 0
  /\ imgCopy = NoImage
  /\ textWidth = 0
  /\ startX = 0
  /\ startY = 0
  /\ openFiles = {}
  /\ deferred = <<>>
  /\ stdout = <<>>
  /\ stderr = <<>>
  /\ sIn = <<>>
  /\ sOut = <<>>

\* runs whose options, paths and colour name vary
InitPre ==
  /\ pc = "checkRequired"
  /\ \E c \in {"", "names.csv"}, i \in {"", "image.png"}, f \in {"", "font.ttf"},
        col \in {"black", "Red", "octarine"} :
       flags = [DefaultFlags EXCEPT !.csvFilePath = c, !.imagePath = i,
                                    !.fontPath = f, !.srcColorName = col]
  /\ exists \in SUBSET AllPaths
  /\ csv = <<<<AB>>, <<AxB>>>>
  /\ imageFile \in ImagePool
  /\ fontFile \in FontPool
  /\ outDir \in (IF "out" \in exists THEN OutDirs ELSE {NoFiles})
  /\ fault = NoFault
  /\ Locals

\* runs whose names file, faults and -center vary
InitRun ==
  /\ pc = "checkRequired"
  /\ \E b \in BOOLEAN : flags = [DefaultFlags EXCEPT !.centerText = b]
  /\ exists = AllPaths
  /\ csv \in RecordLists
  /\ imageFile \in ImagePool
  /\ fontFile \in FontPool
  /\ outDir \in OutDirs
  /\ fault \in FaultPlans(csv)
  /\ Locals

Init == InitPre \/ InitRun

----------------------------------------------------------------------------
(* main: main.go:35-163 *)

\* log.Fatalf: the message is written and the process exits with status 1;
\* the deferred calls do not run, the system closes the handles of the process
Fatal(msg) ==
  /\ pc' = "fatal"
  /\ stderr' = Append(stderr, msg)
  /\ openFiles' = {}

Env == <<exists, csv, imageFile, fontFile, fault, sIn, sOut>>

Loop == <<idx, imgCopy, textWidth, startX, startY>>

Setup == <<srcColor, names, originalImg, imgWidth, imgHeight, fontType>>

\* main.go:39-45
CheckRequired ==
  /\ pc = "checkRequired"
  /\ IF flags.csvFilePath = "" \/ flags.imagePath = "" \/ flags.fontPath = ""
     THEN /\ stdout' = stdout \o <<[kind |-> "usage"], [kind |-> "example"],
                                   [kind |-> "help"]>>
          /\ pc' = "done"
     ELSE /\ pc' = "statCsv"
          /\ UNCHANGED stdout
  /\ UNCHANGED <<flags, outDir, openFiles, deferred, stderr, Env, Loop, Setup>>

\* os.Stat(path) followed by os.IsNotExist(err)
Stat(path, msg, next) ==
  /\ IF path \notin exists
     THEN Fatal(msg)
     ELSE /\ pc' = next
          /\ UNCHANGED <<stderr, openFiles>>
  /\ UNCHANGED <<flags, outDir, deferred, stdout, Env, Loop, Setup>>

\* main.go:48-50
StatCsv ==
  /\ pc = "statCsv"
  /\ Stat(flags.csvFilePath, "The names CSV file does not exist", "statImage")

\* main.go:51-53
StatImage ==
  /\ pc = "statImage"
  /\ Stat(flags.imagePath, "The image file does not exist", "statFont")

\* main.go:54-56
StatFont ==
  /\ pc = "statFont"
  /\ Stat(flags.fontPath, "The font file does not exist", "statOutput")

\* main.go:58-60
StatOutput ==
  /\ pc = "statOutput"
  /\ Stat(flags.outputPath, "Error: output directory path does not exist", "color")

\* every colour name is accepted
AnyColorOk(name) == TRUE

\* ok of main.go:64
ColorOk(name) == name \in DOMAIN ColorMap

\* main.go:63-68
LookupColor ==
  /\ pc = "color"
  /\ LET name == ToLower(flags.srcColorName)
         c == IF name \in DOMAIN ColorMap THEN ColorMap[name] ELSE ZeroColor
     IN /\ flags' = [flags EXCEPT !.srcColorName = name]
        /\ srcColor' = c
        /\ stdout' = Append(stdout, [kind |-> "color", color |-> c])
        /\ IF ~ColorOk(name)
           THEN Fatal("Invalid color name")
           ELSE /\ pc' = "readNames"
                /\ UNCHANGED <<stderr, openFiles>>
  /\ UNCHANGED <<outDir, deferred, Env, Loop, names, originalImg,
                 imgWidth, imgHeight, fontType>>

\* csv.Reader.ReadAll with FieldsPerRecord = 0: every record must have as
\* many fields as the first one
FieldCountsAgree(records) ==
  \A r \in 1..Len(records) : Len(records[r]) = Len(records[1])

\* the loop of main.go:186-188
RECURSIVE AppendRecords(_, _)
AppendRecords(acc, records) ==
  IF records = <<>> THEN acc
  ELSE AppendRecords(acc \o Head(records), Tail(records))

\* main.go:173-191
readNamesFromCSV(records) == AppendRecords(<<>>, records)

\* main.go:71-74
ReadNames ==
  /\ pc = "readNames"
  /\ IF fault.stage = "csv" \/ ~FieldCountsAgree(csv)
     THEN /\ Fatal("Error reading CSV file")
          /\ UNCHANGED names
     ELSE /\ names' = readNamesFromCSV(csv)
          /\ pc' = "openImage"
          /\ UNCHANGED <<stderr, openFiles>>
  /\ UNCHANGED <<flags, outDir, deferred, stdout, Env, Loop, srcColor,
                 originalImg, imgWidth, imgHeight, fontType>>

ImageHandle == [kind |-> "image", n |-> 0]

\* main.go:77-81
OpenImage ==
  /\ pc = "openImage"
  /\ IF fault.stage = "open"
     THEN /\ Fatal("Error loading image file")
          /\ UNCHANGED deferred
     ELSE /\ openFiles' = openFiles \cup {ImageHandle}
          /\ deferred' = Append(deferred, ImageHandle)
          /\ pc' = "decode"
          /\ UNCHANGED stderr
  /\ UNCHANGED <<flags, outDir, stdout, Env, Loop, Setup>>

\* main.go:83-90
DecodeImage ==
  /\ pc = "decode"
  /\ IF fault.stage = "decode"
     THEN /\ Fatal("Error decoding image file")
          /\ UNCHANGED <<originalImg, imgWidth, imgHeight>>
     ELSE /\ originalImg' = imageFile
          /\ imgWidth' = imageFile.bounds[1]
          /\ imgHeight' = imageFile.bounds[2]
          /\ pc' = "readFont"
          /\ UNCHANGED <<stderr, openFiles>>
  /\ UNCHANGED <<flags, outDir, deferred, stdout, Env, Loop, srcColor,
                 names, fontType>>

\* main.go:93-97
ReadFont ==
  /\ pc = "readFont"
  /\ IF fault.stage = "readFont"
     THEN Fatal("Error reading font file")
     ELSE /\ pc' = "parseFont"
          /\ UNCHANGED <<stderr, openFiles>>
  /\ UNCHANGED <<flags, outDir, deferred, stdout, Env, Loop, Setup>>

\* main.go:100-112
ParseFont ==
  /\ pc = "parseFont"
  /\ IF fault.stage = "parseFont"
     THEN /\ Fatal("Error reading font type")
          /\ UNCHANGED <<fontType, stdout, idx>>
     ELSE /\ fontType' = fontFile
          /\ stdout' = Append(stdout, [kind |-> "summary", found |-> Len(names),
                                       width |-> imgWidth, height |-> imgHeight])
          /\ idx' = 1
          /\ pc' = "loop"
          /\ UNCHANGED <<stderr, openFiles>>
  /\ UNCHANGED <<flags, outDir, deferred, Env, imgCopy, textWidth,
                 startX, startY, srcColor, names, originalImg, imgWidth, imgHeight>>

----------------------------------------------------------------------------
(* The loop over the names: main.go:114-162 *)

\* the last name is left out
HasNextButLast(ns, k) == k < Len(ns)

\* the range loop of main.go:115 has a name left
HasNext(ns, k) == k <= Len(ns)

\* image.NewRGBA(originalImg.Bounds()) and draw.Draw(.., originalImg, .., draw.Over)
\* on it: the new raster has the bounds and the content of src
CopyOf(src) == [bounds |-> src.bounds, pix |-> src.pix, ink |-> src.ink]

\* the raster is allocated and filled for the first name only
CopyBackgroundOnce ==
  /\ pc = "loop"
  /\ HasNext(names, idx)
  /\ imgCopy' = IF idx = 1 THEN CopyOf(originalImg) ELSE imgCopy
  /\ pc' = "layout"
  /\ UNCHANGED <<flags, outDir, openFiles, deferred, stdout, stderr, Env, Setup,
                 idx, textWidth, startX, startY>>

\* main.go:115-133
CopyBackground ==
  /\ pc = "loop"
  /\ HasNext(names, idx)
  /\ imgCopy' = CopyOf(originalImg)
  /\ pc' = "layout"
  /\ UNCHANGED <<flags, outDir, openFiles, deferred, stdout, stderr, Env, Setup,
                 idx, textWidth, startX, startY>>

\* main.go:136-143
Layout ==
  /\ pc = "layout"
  /\ LET tw == getTextWidth(names[idx], fontType)
     IN /\ textWidth' = tw
        /\ startY' = StartY(imgHeight, flags.heightPercent)
        /\ startX' = StartX(imgWidth, flags.widthPercent, flags.centerText, tw)
  /\ pc' = "draw"
  /\ UNCHANGED <<flags, outDir, openFiles, deferred, stdout, stderr, Env, Setup,
                 idx, imgCopy>>

\* c.DrawString(name, pt) on dst: the glyphs of name are drawn from pt on, in
\* the colour src; a name without characters draws nothing
Drawn(dst, name, pt, src) ==
  IF name = <<>> THEN dst
  ELSE [dst EXCEPT !.ink = Append(@, [text |-> name, pt |-> pt, src |-> src])]

\* main.go:143-148
DrawString ==
  /\ pc = "draw"
  /\ IF fault.stage = "draw" /\ fault.at = idx
     THEN /\ Fatal("Error drawing name on image")
          /\ UNCHANGED imgCopy
     ELSE /\ imgCopy' = Drawn(imgCopy, names[idx], <<startX, startY>>, srcColor)
          /\ pc' = "create"
          /\ UNCHANGED <<stderr, openFiles>>
  /\ UNCHANGED <<flags, outDir, deferred, stdout, Env, Setup,
                 idx, textWidth, startX, startY>>

\* the directory dir with the file base holding content
WithFile(dir, base, content) ==
  [f \in DOMAIN dir \cup {base} |-> IF f = base THEN content ELSE dir[f]]

OutputHandle(k, file) == [kind |-> "output", n |-> k, file |-> file]

\* main.go:151-156: os.Create makes the file, or empties the one there is;
\* the Close of the handle is deferred to the return of main
CreateFile ==
  /\ pc = "create"
  /\ LET file == OutputFilename(flags.outputPath, names[idx])
     IN IF fault.stage = "create" /\ fault.at = idx
        THEN /\ Fatal("Error creating output file")
             /\ UNCHANGED <<outDir, deferred>>
        ELSE /\ outDir' = WithFile(outDir, file.base, Truncated)
             /\ openFiles' = openFiles \cup {OutputHandle(idx, file)}
             /\ deferred' = Append(deferred, OutputHandle(idx, file))
             /\ pc' = "encode"
             /\ UNCHANGED stderr
  /\ UNCHANGED <<flags, stdout, Env, Setup, Loop>>

\* a failure to encode is logged and the loop goes on
EncodePngGoOn ==
  /\ pc = "encode"
  /\ LET file == OutputFilename(flags.outputPath, names[idx])
     IN IF fault.stage = "encode" /\ fault.at = idx
        THEN /\ stderr' = Append(stderr, "Error encoding PNG file")
             /\ UNCHANGED <<outDir, stdout>>
        ELSE /\ outDir' = WithFile(outDir, file.base, Png(imgCopy))
             /\ stdout' = Append(stdout, [kind |-> "saved", file |-> file])
             /\ UNCHANGED stderr
  /\ idx' = idx + 1
  /\ pc' = "loop"
  /\ UNCHANGED <<flags, openFiles, deferred, Env, Setup, imgCopy, textWidth,
                 startX, startY>>

\* main.go:157-162
EncodePng ==
  /\ pc = "encode"
  /\ LET file == OutputFilename(flags.outputPath, names[idx])
     IN IF fault.stage = "encode" /\ fault.at = idx
        THEN /\ Fatal("Error encoding PNG file")
             /\ UNCHANGED <<outDir, stdout, idx>>
        ELSE /\ outDir' = WithFile(outDir, file.base, Png(imgCopy))
             /\ stdout' = Append(stdout, [kind |-> "saved", file |-> file])
             /\ idx' = idx + 1
             /\ pc' = "loop"
             /\ UNCHANGED <<stderr, openFiles>>
  /\ UNCHANGED <<flags, deferred, Env, Setup, imgCopy, textWidth,
                 startX, startY>>

\* main.go:163: main returns, the deferred Close calls run (main.go:81, 156)
Return ==
  /\ pc = "loop"
  /\ ~HasNext(names, idx)
  /\ openFiles' = openFiles \ {deferred[k] : k \in 1..Len(deferred)}
  /\ deferred' = <<>>
  /\ pc' = "done"
  /\ UNCHANGED <<flags, outDir, stdout, stderr, Env, Setup, Loop>>

Next ==
  \/ CheckRequired
  \/ StatCsv
  \/ StatImage
  \/ StatFont
  \/ StatOutput
  \/ LookupColor
  \/ ReadNames
  \/ OpenImage
  \/ DecodeImage
  \/ ReadFont
  \/ ParseFont
  \/ CopyBackground
  \/ Layout
  \/ DrawString
  \/ CreateFile
  \/ EncodePng
  \/ Return

Spec == Init /\ [][Next]_vars

\* main is one sequential process: it takes its next step as long as it has one
FairSpec == Spec /\ WF_vars(Next)

----------------------------------------------------------------------------
(* The anchor computed on its own, for every size, fraction, name and font *)

NamePool == {AB, AxB, Cd, E, Empty}

InitLayout ==
  /\ pc = "layout"
  /\ \E w \in Fractions, h \in Fractions, b \in BOOLEAN :
       flags = [DefaultFlags EXCEPT !.widthPercent = w, !.heightPercent = h,
                                    !.centerText = b]
  /\ exists = AllPaths
  /\ \E n \in NamePool : /\ csv = <<<<n>>>>
                         /\ names = <<n>>
  /\ \E w \in 1..MaxDim, h \in 1..MaxDim :
       /\ imageFile = [bounds |-> <<w, h>>, pix |-> "certificate", ink |-> <<>>]
       /\ originalImg = imageFile
       /\ imgCopy = imageFile
       /\ imgWidth = w
       /\ imgHeight = h
  /\ fontFile \in FontPool
  /\ fontType = fontFile
  /\ outDir = NoFiles
  /\ fault = NoFault
  /\ srcColor = ColorMap["black"]
  /\ idx = 1
  /\ textWidth = 0
  /\ startX = 0
  /\ startY = 0
  /\ openFiles = {ImageHandle}
  /\ deferred = <<ImageHandle>>
  /\ stdout = <<>>
  /\ stderr = <<>>
  /\ sIn = <<>>
  /\ sOut = <<>>

LayoutSpec == InitLayout /\ [][Layout]_vars

----------------------------------------------------------------------------
(* sanitizeFilename on its own, for every short string *)

Chars == {"A", "b", "7", "_", " ", "!", "'"}

Strings == UNION {[1..n -> Chars] : n \in 0..MaxLen}

InitSanitize ==
  /\ pc = "sanitize"
  /\ flags = DefaultFlags
  /\ exists = AllPaths
  /\ csv = <<>>
  /\ imageFile = NoImage
  /\ fontFile = NoFont
  /\ outDir = NoFiles
  /\ fault = NoFault
  /\ srcColor = ZeroColor
  /\ names = <<>>
  /\ originalImg = NoImage
  /\ imgWidth = 0
  /\ imgHeight = 0
  /\ fontType = NoFont
  /\ idx = 0
  /\ imgCopy = NoImage
  /\ textWidth = 0
  /\ startX = 0
  /\ startY = 0
  /\ openFiles = {}
  /\ deferred = <<>>
  /\ stdout = <<>>
  /\ stderr = <<>>
  /\ sIn \in Strings
  /\ sOut = <<>>

\* sanitizeFilename is applied to sIn, then to its own result
Sanitize ==
  /\ pc = "sanitize"
  /\ Len(sOut) < 2
  /\ sOut' = Append(sOut, sanitizeFilename(IF sOut = <<>> THEN sIn ELSE sOut[Len(sOut)]))
  /\ UNCHANGED <<pc, flags, exists, csv, imageFile, fontFile, outDir, fault,
                 srcColor, names, originalImg, imgWidth, imgHeight, fontType, idx,
                 imgCopy, textWidth, startX, startY, openFiles, deferred, stdout,
                 stderr, sIn>>

SanitizeSpec == InitSanitize /\ [][Sanitize]_vars

----------------------------------------------------------------------------
(* What the claims speak of *)

AllowedChars == Letters \cup Digits \cup {"_"}

IsAllowedChar(ch) == ch \in AllowedChars

\* the sanitized form of a name, as the specification words it: spaces become
\* underscores, then only letters, digits and underscores are kept
Sanitized(s) ==
  SelectSeq([k \in 1..Len(s) |-> IF s[k] = " " THEN "_" ELSE s[k]], IsAllowedChar)

\* <sanitizedName>.png
FileOf(name) == Sanitized(name) \o <<".", "p", "n", "g">>

Count(s, ch) == Cardinality({k \in 1..Len(s) : s[k] = ch})

\* q is a/b rounded to a nearest integer, a half going either way (b > 0)
IsNearest(q, a, b) ==
  LET d == q * b - a
  IN 2 * (IF d >= 0 THEN d ELSE -d) <= b

\* q is a/b with its fractional part dropped (b > 0)
IsTruncation(q, a, b) ==
  IF a >= 0 THEN q * b <= a /\ a < (q + 1) * b
  ELSE q * b >= a /\ a > (q - 1) * b

\* the files of the output directory that hold a PNG
PngFiles == {f \in DOMAIN outDir : outDir[f].kind = "png"}

\* the text drawn on a raster; <<>> when nothing was drawn
TextOf(img) == IF img.ink = <<>> THEN <<>> ELSE img.ink[Len(img.ink)].text

\* the last of the first n names that has the file of names[j]
LastWriter(j, n) ==
  CHOOSE k \in j..n :
    /\ FileOf(names[k]) = FileOf(names[j])
    /\ \A m \in (k + 1)..n : FileOf(names[m]) # FileOf(names[j])

IsSaved(l) == l.kind = "saved"

\* the "Image saved successfully" lines printed so far
Confirmations == SelectSeq(stdout, IsSaved)

LoopPcs == {"loop", "layout", "draw", "create", "encode"}

----------------------------------------------------------------------------
(* C1 *)

\* a fraction of [0, 1]
InUnitRange(p) == 0 <= p.num /\ p.num <= p.den

\* C1 as stated, already for the fractions h of [0, 1]: the vertical anchor
\* is y = H - round(H*h)
C1_RoundedAnchorY ==
  (pc = "draw" /\ InUnitRange(flags.heightPercent)) =>
    IsNearest(imgHeight - startY, imgHeight * flags.heightPercent.num,
              flags.heightPercent.den)

\* C1, amended: the vertical anchor is y = H - trunc(H*h), H*h with its
\* fractional part dropped; h = 0 gives y = H, h = 1 gives y = 0 and h = 0.5
\* gives y = H/2 to within one pixel
C1_TruncatedAnchorY ==
  pc = "draw" =>
    LET h == flags.heightPercent
    IN /\ IsTruncation(imgHeight - startY, imgHeight * h.num, h.den)
       /\ h.num = 0 => startY = imgHeight
       /\ h.num = h.den => startY = 0
       /\ 2 * h.num = h.den => 2 * startY \in {imgHeight, imgHeight + 1}

\* an anchor was computed where H*h is no integer
C1_Witness ==
  /\ pc = "draw"
  /\ flags.heightPercent.num > 0
  /\ (imgHeight * flags.heightPercent.num) % flags.heightPercent.den # 0

----------------------------------------------------------------------------
(* C2 *)

\* C2 as stated, already for the fractions w of [0, 1]: x = round(W*w)
\* without -center, x = round(W*w) - t/2 with it
C2_RoundedAnchorX ==
  (pc = "draw" /\ InUnitRange(flags.widthPercent)) =>
    IsNearest(startX + (IF flags.centerText THEN textWidth \div 2 ELSE 0),
              imgWidth * flags.widthPercent.num, flags.widthPercent.den)

\* C2, amended: x = trunc(W*w) without -center, whatever the name and its
\* width; x = trunc(W*w) - t div 2 with -center, t >= 0 the measured width
C2_TruncatedAnchorX ==
  pc = "draw" =>
    LET w == flags.widthPercent
    IN /\ textWidth >= 0
       /\ ~flags.centerText => IsTruncation(startX, imgWidth * w.num, w.den)
       /\ flags.centerText =>
            \E d \in 0..textWidth :
              /\ 2 * d <= textWidth
              /\ textWidth < 2 * d + 2
              /\ IsTruncation(startX + d, imgWidth * w.num, w.den)

\* a centred anchor was computed for a text of odd width where W*w is no integer
C2_Witness ==
  /\ pc = "draw"
  /\ flags.centerText
  /\ textWidth % 2 = 1
  /\ (imgWidth * flags.widthPercent.num) % flags.widthPercent.den # 0

----------------------------------------------------------------------------
(* C3 *)

\* C3: sanitizeFilename(s) is s with every space made an underscore and every
\* character outside [A-Za-z0-9_] deleted: only allowed characters, in their
\* original order, one underscore for each space
C3_SanitizeResult ==
  sOut # <<>> =>
    LET r == sOut[1]
    IN /\ r = Sanitized(sIn)
       /\ \A k \in 1..Len(r) : r[k] \in AllowedChars
       /\ Count(r, "_") = Count(sIn, " ") + Count(sIn, "_")
       /\ \A ch \in AllowedChars \ {"_"} : Count(r, ch) = Count(sIn, ch)

\* a string with a space, a letter and a forbidden character was sanitized
C3_Witness ==
  /\ sOut # <<>>
  /\ \E i, j, k \in 1..Len(sIn) :
       sIn[i] = " " /\ sIn[j] \in Letters /\ sIn[k] \notin AllowedChars \cup {" "}

----------------------------------------------------------------------------
(* C4 *)

\* C4: sanitizeFilename(sanitizeFilename(s)) = sanitizeFilename(s)
C4_SanitizeIdempotent == Len(sOut) = 2 => sOut[2] = sOut[1]

\* a string that sanitizing changes was sanitized twice
C4_Witness == Len(sOut) = 2 /\ sOut[1] # sIn /\ sOut[1] # <<>>

----------------------------------------------------------------------------
(* C5 *)

\* the fields of the names file, by record and position
Fields == {<<r, f>> : r \in 1..Len(csv), f \in 1..CountFields(csv)}

FieldsOfCsv == {p \in Fields : p[2] <= Len(csv[p[1]])}

\* options given, paths there, colour known, records of one length, no fault
ValidRun ==
  /\ flags.csvFilePath # "" /\ flags.csvFilePath \in exists
  /\ flags.imagePath # "" /\ flags.imagePath \in exists
  /\ flags.fontPath # "" /\ flags.fontPath \in exists
  /\ flags.outputPath \in exists
  /\ ToLower(flags.srcColorName) \in DOMAIN ColorMap
  /\ FieldCountsAgree(csv)
  /\ fault = NoFault

DistinctFiles ==
  \A p, q \in FieldsOfCsv :
    p # q => FileOf(csv[p[1]][p[2]]) # FileOf(csv[q[1]][q[2]])

\* the run has ended with status 0 and the PNG files of the output directory
\* are the N files <sanitizedName>.png of the N names
EndedWithAllFiles ==
  /\ pc = "done"
  /\ stderr = <<>>
  /\ PngFiles = {FileOf(csv[p[1]][p[2]]) : p \in FieldsOfCsv}
  /\ Cardinality(PngFiles) = CountFields(csv)
  /\ Len(Confirmations) = CountFields(csv)
  /\ \A f \in DOMAIN outDir : outDir[f].kind # "truncated"

\* C5: a run with valid inputs and no fault over N names with pairwise
\* distinct sanitized forms ends successfully with exactly the N files
\* <sanitizedName>.png (none for N = 0)
C5_ValidRunWritesAllFiles ==
  (pc = "checkRequired" /\ ValidRun /\ DistinctFiles) ~> EndedWithAllFiles

\* such a run over at least three names, in records of two fields, has ended
C5_Witness ==
  /\ ValidRun
  /\ DistinctFiles
  /\ EndedWithAllFiles
  /\ CountFields(csv) >= 3
  /\ Len(csv) < CountFields(csv)

----------------------------------------------------------------------------
(* C6 *)

----------------------------------------------------------------------------
(* C7 *)

PreconditionFails ==
  \/ flags.csvFilePath = "" \/ flags.imagePath = "" \/ flags.fontPath = ""
  \/ flags.csvFilePath \notin exists
  \/ flags.imagePath \notin exists
  \/ flags.fontPath \notin exists
  \/ flags.outputPath \notin exists
  \/ ToLower(flags.srcColorName) \notin DOMAIN ColorMap

\* C7: when a precondition fails, no step of the run changes the output
\* directory or enters the loop over the names
C7_NoOutputOnPreconditionFailure ==
  [][PreconditionFails => (outDir' = outDir /\ pc' \notin LoopPcs)]_vars

\* a run with an unknown colour name has stopped, the file of an earlier run
\* still in the output directory
C7_Witness ==
  /\ pc = "fatal"
  /\ ToLower(flags.srcColorName) \notin DOMAIN ColorMap
  /\ outDir # NoFiles
  /\ \A f \in DOMAIN outDir : outDir[f] = Stale

----------------------------------------------------------------------------
(* C8 *)

\* the run has aborted at the name fault.at
AbortedAtName == pc = "fatal" /\ fault.stage \in NameStages /\ idx = fault.at

\* the run never goes past the call that failed
StopsAtFault ==
  (fault.stage \in NameStages /\ idx >= 1) =>
    /\ idx <= fault.at
    /\ idx = fault.at =>
         /\ fault.stage = "draw" => pc \notin {"create", "encode"}
         /\ fault.stage = "create" => pc # "encode"

\* nothing was created, rendered or confirmed for a name after idx
NothingAfter ==
  /\ \A f \in DOMAIN outDir :
       outDir[f] # Stale =>
         \E j \in 1..idx : f = FileOf(names[j]) /\ (j = idx => fault.stage = "encode")
  /\ TextOf(imgCopy) \in {<<>>, names[idx]}
  /\ Len(Confirmations) = idx - 1
  /\ \A j \in 1..(idx - 1) : Confirmations[j].file.base = FileOf(names[j])

\* the file of the j-th name holds what the names before idx left in it
FileKept(j) ==
  /\ FileOf(names[j]) \in PngFiles
  /\ TextOf(outDir[FileOf(names[j])].img) = names[LastWriter(j, idx - 1)]

\* C8 as stated: when drawing, creating or encoding fails for the k-th name,
\* the run aborts there, the files written for the names 1..k-1 are unchanged
\* and nothing is created, rendered or confirmed for a later name
C8_AbortKeepsAllEarlierFiles ==
  /\ StopsAtFault
  /\ AbortedAtName => (NothingAfter /\ \A j \in 1..(idx - 1) : FileKept(j))

\* C8, amended: as stated, except that when it is the encoding that fails,
\* the file of an earlier name with the sanitized form of the k-th name has
\* been emptied by the creation of the k-th file
C8_AbortKeepsOtherEarlierFiles ==
  /\ StopsAtFault
  /\ AbortedAtName =>
       /\ NothingAfter
       /\ \A j \in 1..(idx - 1) :
            IF fault.stage = "encode" /\ FileOf(names[j]) = FileOf(names[idx])
            THEN outDir[FileOf(names[j])] = Truncated
            ELSE FileKept(j)

\* the encoding failed for a name whose file an earlier name had written,
\* after another file was written
C8_Witness ==
  /\ AbortedAtName
  /\ fault.stage = "encode"
  /\ \E j \in 1..(idx - 1) : FileOf(names[j]) = FileOf(names[idx])
  /\ PngFiles # {}

----------------------------------------------------------------------------
(* C9 *)

\* C9: the background raster stays what was decoded, and every raster
\* written is the background, same bounds and pixels, with the text of its
\* own name only; for the empty name it is the background itself
C9_FreshCopyPerName ==
  /\ originalImg \in {NoImage, imageFile}
  /\ pc \in LoopPcs => originalImg = imageFile
  /\ \A f \in PngFiles :
       LET img == outDir[f].img
       IN /\ img.bounds = imageFile.bounds
          /\ img.pix = imageFile.pix
          /\ \E j \in 1..Len(names) :
               /\ f = FileOf(names[j])
               /\ IF names[j] = <<>> THEN img = imageFile
                  ELSE Len(img.ink) = 1 /\ img.ink[1].text = names[j]

\* the empty name was rendered after a name with text
C9_Witness ==
  /\ pc = "done"
  /\ \E j \in 2..Len(names) : names[j] = <<>> /\ names[j - 1] # <<>>
  /\ FileOf(<<>>) \in PngFiles
  /\ outDir[FileOf(<<>>)].img = imageFile

----------------------------------------------------------------------------
(* C10 *)

OpenOutputs == {h \in openFiles : h.kind = "output"}

\* C10: at most one output file handle is open at any time, and none is
\* left open when the run has ended
C10_OneOutputHandleAtATime ==
  /\ Cardinality(OpenOutputs) <= 1
  /\ pc \in {"done", "fatal"} => OpenOutputs = {}

====
